---------------------------- MODULE Spec2Model ----------------------------
(***************************************************************************)
(* A model of src/server.py: the two tools search_jobs and get_job_details *)
(* and the flattening function serialize_job.                              *)
(*                                                                         *)
(* Python values are tagged records.  A str is a sequence of text pieces;  *)
(* the strings the code processes character by character (proxies,         *)
(* description_format) are sequences of one-character pieces.              *)
(***************************************************************************)
EXTENDS Naturals, Sequences, FiniteSets, TLC

(***************************************************************************)
(* Bounds of the model.                                                    *)
(***************************************************************************)
\* the number of calls that may be in flight together
NCalls == 2
\* the longest proxies string drawn, in characters
MaxProxyLen == 4
\* the longest list of posts the engine returns in SpecSearch
MaxPosts == 3
\* the most optional fields of one post that are set (not None) in SpecSerialize
MaxSet == 2

(***************************************************************************)
(* Python values.                                                          *)
(***************************************************************************)
None == [t |-> "None"]
Unbound == [t |-> "unbound"]
Str(s) == [t |-> "str", s |-> s]
Bool(b) == [t |-> "bool", b |-> b]
Int(n) == [t |-> "int", n |-> n]
List(l) == [t |-> "list", l |-> l]
Dict(d) == [t |-> "dict", d |-> d]
\* an object: its class name and its attributes (a method is held as the
\* value a call of it returns)
Obj(cls, attrs) == [t |-> "obj", cls |-> cls, attrs |-> attrs]
Ref(n) == [t |-> "ref", id |-> n]
Exc(cls, msg) == [t |-> "exc", cls |-> cls, msg |-> msg]

\* the outcome of evaluating an expression: a value, or a raised exception
Ok(v) == [ok |-> TRUE, v |-> v]
Raise(e) == [ok |-> FALSE, e |-> e]

Put(d, k, v) == Dict([x \in (DOMAIN d.d) \cup {k} |-> IF x = k THEN v ELSE d.d[x]])
Keys(d) == DOMAIN d.d

\* Python's truth value of an object, as the `if x:` tests of the code use it
Truthy(v) ==
    CASE v.t = "None" -> FALSE
      [] v.t = "str" -> Len(v.s) > 0
      [] v.t = "list" -> Len(v.l) > 0
      [] v.t = "dict" -> DOMAIN v.d # {}
      [] v.t = "bool" -> v.b
      [] v.t = "int" -> v.n # 0
      [] OTHER -> TRUE

ClassName(v) == IF v.t = "obj" THEN v.cls ELSE v.t

\* obj.name: the attribute, or AttributeError
GetAttr(v, name) ==
    IF v.t = "obj" /\ name \in DOMAIN v.attrs
    THEN Ok(v.attrs[name])
    ELSE Raise(Exc("AttributeError",
                   <<"'", ClassName(v), "' object has no attribute '", name, "'">>))

(***************************************************************************)
(* str methods.                                                            *)
(***************************************************************************)
Whitespace == {" ", "\t", "\n"}

UpperCase ==
    [ch \in {"A","B","C","D","E","F","G","H","I","J","K","L","M",
             "N","O","P","Q","R","S","T","U","V","W","X","Y","Z"} |->
        CASE ch = "A" -> "a" [] ch = "B" -> "b" [] ch = "C" -> "c" [] ch = "D" -> "d"
          [] ch = "E" -> "e" [] ch = "F" -> "f" [] ch = "G" -> "g" [] ch = "H" -> "h"
          [] ch = "I" -> "i" [] ch = "J" -> "j" [] ch = "K" -> "k" [] ch = "L" -> "l"
          [] ch = "M" -> "m" [] ch = "N" -> "n" [] ch = "O" -> "o" [] ch = "P" -> "p"
          [] ch = "Q" -> "q" [] ch = "R" -> "r" [] ch = "S" -> "s" [] ch = "T" -> "t"
          [] ch = "U" -> "u" [] ch = "V" -> "v" [] ch = "W" -> "w" [] ch = "X" -> "x"
          [] ch = "Y" -> "y" [] ch = "Z" -> "z"]

\* str.lower()
lower(s) == [i \in 1..Len(s) |-> IF s[i] \in DOMAIN UpperCase THEN UpperCase[s[i]] ELSE s[i]]

RECURSIVE lstrip(_)
lstrip(s) == IF s # <<>> /\ Head(s) \in Whitespace THEN lstrip(Tail(s)) ELSE s

RECURSIVE rstrip(_)
rstrip(s) ==
    IF s # <<>> /\ s[Len(s)] \in Whitespace THEN rstrip(SubSeq(s, 1, Len(s) - 1)) ELSE s

\* str.strip()
strip(s) == rstrip(lstrip(s))

\* str.split(sep) for a one-character separator: always at least one segment
RECURSIVE split(_, _)
split(s, sep) ==
    IF \A i \in 1..Len(s) : s[i] # sep
    THEN <<s>>
    ELSE LET i == CHOOSE k \in 1..Len(s) : s[k] = sep /\ \A j \in 1..(k - 1) : s[j] # sep
         IN  <<SubSeq(s, 1, i - 1)>> \o split(SubSeq(s, i + 1, Len(s)), sep)

\* sep.join(parts), parts a sequence of strs
RECURSIVE join(_, _)
join(sep, parts) ==
    IF parts = <<>> THEN <<>>
    ELSE IF Len(parts) = 1 THEN parts[1]
    ELSE parts[1] \o sep \o join(sep, Tail(parts))


(***************************************************************************)
(* The library's enumerations, as the objects the code handles.            *)
(***************************************************************************)
Enum(cls, name, value) == Obj(cls, [name |-> Str(<<name>>), value |-> value])

Site_LINKEDIN == Enum("Site", "LINKEDIN", Str(<<"linkedin">>))
DescriptionFormat_MARKDOWN == Enum("DescriptionFormat", "MARKDOWN", Str(<<"markdown">>))
DescriptionFormat_HTML == Enum("DescriptionFormat", "HTML", Str(<<"html">>))

\* the job-type enumeration, in iteration order: each member's value is the
\* tuple of its textual values, the first one its short display code
JobType ==
    << Enum("JobType", "FULL_TIME", List(<<Str(<<"fulltime">>), Str(<<"vollzeit">>)>>)),
       Enum("JobType", "PART_TIME", List(<<Str(<<"parttime">>), Str(<<"teilzeit">>)>>)),
       Enum("JobType", "CONTRACT", List(<<Str(<<"contract">>), Str(<<"contractor">>)>>)),
       Enum("JobType", "INTERNSHIP", List(<<Str(<<"internship">>)>>)) >>

\* value_str in job_type.value
InTuple(v, tuple) == \E i \in 1..Len(tuple.l) : tuple.l[i] = v

\* jobspy.util.get_enum_from_value: the first member one of whose textual
\* values is value_str; no member matching is an error
get_enum_from_value(value_str) ==
    LET hits == {i \in 1..Len(JobType) : InTuple(value_str, JobType[i].attrs.value)}
    IN  IF hits # {}
        THEN Ok(JobType[CHOOSE i \in hits : \A k \in hits : i <= k])
        ELSE Raise(Exc("Exception", <<"Invalid job type: ">> \o value_str.s))

(***************************************************************************)
(* serialize_job.                                                          *)
(***************************************************************************)
\* r, then f applied to its value unless r raised
Bind(r, F(_)) == IF r.ok THEN F(r.v) ELSE r

\* job_dict[key] = <value of out>, or the exception out raised
Store(d, key, out) == IF out.ok THEN Ok(Put(d, key, out.v)) ELSE out

\* iterating obj: the elements of a list, the characters of a str
Iterate(v) ==
    CASE v.t = "list" -> Ok(v.l)
      [] v.t = "str" -> Ok([i \in 1..Len(v.s) |-> Str(<<v.s[i]>>)])
      [] OTHER -> Raise(Exc("TypeError", <<"'", ClassName(v), "' object is not iterable">>))

\* ", ".join(jt.value[0] for jt in job_type)
JoinJobTypes(job_type) ==
    Bind(Iterate(job_type), LAMBDA jts :
        LET outs == [i \in 1..Len(jts) |-> GetAttr(jts[i], "value")]
            bad == {i \in 1..Len(jts) : ~outs[i].ok}
        IN  IF bad # {}
            THEN outs[CHOOSE i \in bad : \A k \in bad : i <= k]
            ELSE Ok(Str(join(<<",", " ">>, [i \in 1..Len(jts) |-> outs[i].v.l[1].s]))))

\* {"min_amount": c.min_amount, "max_amount": c.max_amount, "currency": c.currency}
CompensationDict(c) ==
    Bind(GetAttr(c, "min_amount"), LAMBDA lo :
    Bind(GetAttr(c, "max_amount"), LAMBDA hi :
    Bind(GetAttr(c, "currency"), LAMBDA cur :
        Ok(Dict([k \in {"min_amount", "max_amount", "currency"} |->
                    CASE k = "min_amount" -> lo
                      [] k = "max_amount" -> hi
                      [] OTHER -> cur])))))

\* CopyIfSet with the test on None only: `if job.<key> is not None:`
CopyIfNotNone(j, d, key) == IF j[key] # None THEN Ok(Put(d, key, j[key])) ELSE Ok(d)

\* `if job.<key>: job_dict[<key>] = job.<key>`
CopyIfSet(j, d, key) == IF Truthy(j[key]) THEN Ok(Put(d, key, j[key])) ELSE Ok(d)

serialize_job(job) ==
    LET j == job.attrs
        base == Dict([k \in {"id", "title", "company_name", "job_url", "job_url_direct"}
                        |-> j[k]])
    IN
    Bind(IF Truthy(j.location)
         THEN Store(base, "location", GetAttr(j.location, "display_location"))
         ELSE Ok(base), LAMBDA d1 :
    Bind(IF Truthy(j.date_posted)
         THEN Store(d1, "date_posted", GetAttr(j.date_posted, "isoformat"))
         ELSE Ok(d1), LAMBDA d2 :
    Bind(CopyIfSet(j, d2, "description"), LAMBDA d3 :
    Bind(CopyIfSet(j, d3, "company_url"), LAMBDA d4 :
    Bind(IF Truthy(j.job_type)
         THEN Store(d4, "job_type", JoinJobTypes(j.job_type))
         ELSE Ok(d4), LAMBDA d5 :
    Bind(IF Truthy(j.compensation)
         THEN Store(d5, "compensation", CompensationDict(j.compensation))
         ELSE Ok(d5), LAMBDA d6 :
    Bind(CopyIfSet(j, d6, "emails"), LAMBDA d7 :
    Bind(Ok(Put(d7, "is_remote", j.is_remote)), LAMBDA d8 :
    Bind(CopyIfSet(j, d8, "job_level"), LAMBDA d9 :
    Bind(CopyIfSet(j, d9, "company_industry"), LAMBDA d10 :
    Bind(CopyIfSet(j, d10, "company_logo"), LAMBDA d11 :
    CopyIfSet(j, d11, "job_function"))))))))))))

\* SerializeAll that skips a post already seen
RECURSIVE SerializeAllDeduplicated(_)
SerializeAllDeduplicated(jobs) ==
    IF jobs = <<>> THEN Ok(<<>>)
    ELSE Bind(serialize_job(Head(jobs)), LAMBDA rec :
         Bind(SerializeAllDeduplicated(Tail(jobs)), LAMBDA rest :
             IF \E i \in 1..Len(rest) : rest[i] = rec THEN Ok(rest) ELSE Ok(<<rec>> \o rest)))

\* [serialize_job(job) for job in jobs]: the records in order, or the
\* exception of the first post that raises
RECURSIVE SerializeAll(_)
SerializeAll(jobs) ==
    IF jobs = <<>> THEN Ok(<<>>)
    ELSE Bind(serialize_job(Head(jobs)), LAMBDA rec :
         Bind(SerializeAll(Tail(jobs)), LAMBDA rest : Ok(<<rec>> \o rest)))

(***************************************************************************)
(* The request side of both tools.                                         *)
(***************************************************************************)
\* ParseProxies without the strip: proxies.split(",")
ParseProxiesUnstripped(proxies) ==
    IF Truthy(proxies)
    THEN LET segs == split(proxies.s, ",")
         IN  List([i \in 1..Len(segs) |-> Str(segs[i])])
    ELSE None

\* proxy_list = None; if proxies: proxy_list = [p.strip() for p in proxies.split(",")]
ParseProxies(proxies) ==
    IF Truthy(proxies)
    THEN LET segs == split(proxies.s, ",")
         IN  List([i \in 1..Len(segs) |-> Str(strip(segs[i]))])
    ELSE None

markdown == <<"m", "a", "r", "k", "d", "o", "w", "n">>

\* ResolveDescriptionFormat without the lower(): description_format == "markdown"
ResolveDescriptionFormatCaseSensitive(description_format) ==
    IF description_format.t = "str" /\ description_format.s = markdown
    THEN Ok(DescriptionFormat_MARKDOWN)
    ELSE Ok(DescriptionFormat_HTML)

\* DescriptionFormat.MARKDOWN if description_format.lower() == "markdown"
\* else DescriptionFormat.HTML
ResolveDescriptionFormat(description_format) ==
    IF description_format.t # "str"
    THEN GetAttr(description_format, "lower")
    ELSE IF lower(description_format.s) = markdown
         THEN Ok(DescriptionFormat_MARKDOWN)
         ELSE Ok(DescriptionFormat_HTML)

\* ResolveJobType falling back to no filter when no member matches
ResolveJobTypeOrNone(job_type) ==
    IF Truthy(job_type) /\ get_enum_from_value(job_type).ok
    THEN get_enum_from_value(job_type)
    ELSE Ok(None)

\* get_enum_from_value(job_type) if job_type else None
ResolveJobType(job_type) ==
    IF Truthy(job_type) THEN get_enum_from_value(job_type) ELSE Ok(None)

\* ScraperInput(...) of search_jobs: the keyword arguments it is built from
SearchScraperInput(a, job_type_enum) ==
    Bind(ResolveDescriptionFormat(a.description_format), LAMBDA fmt :
        Ok(Obj("ScraperInput",
               [site_type |-> List(<<Site_LINKEDIN>>),
                search_term |-> a.search_term,
                location |-> a.location,
                distance |-> a.distance,
                is_remote |-> a.is_remote,
                job_type |-> job_type_enum,
                results_wanted |-> a.results_wanted,
                linkedin_fetch_description |-> a.fetch_description,
                description_format |-> fmt])))

\* ScraperInput(...) of get_job_details
DetailsScraperInput(a) ==
    Bind(ResolveDescriptionFormat(a.description_format), LAMBDA fmt :
        Ok(Obj("ScraperInput",
               [site_type |-> List(<<Site_LINKEDIN>>),
                description_format |-> fmt])))

\* except Exception as e: return {"error": str(e)}
ExceptionClasses ==
    {"Exception", "AttributeError", "TypeError", "ValueError", "LinkedInException"}

ErrorDict(e) == Dict([k \in {"error"} |-> Str(e.msg)])


(***************************************************************************)
(* The state: one frame per call (its position and its local variables),   *)
(* and the heap of scraper objects the calls have constructed.             *)
(***************************************************************************)
VARIABLES frames, heap

vars == <<frames, heap>>

Calls == 1..NCalls

IdleFrame ==
    [pc |-> "idle", op |-> "none", args |-> Unbound,
     proxy_list |-> Unbound, linkedin |-> Unbound, job_type_enum |-> Unbound,
     scraper_input |-> Unbound, job_response |-> Unbound, result |-> Unbound,
     raisedAt |-> "nowhere", env_ctor |-> Unbound, env_engine |-> Unbound]

Init ==
    /\ frames = [c \in Calls |-> IdleFrame]
    /\ heap = <<>>

\* Except with a narrow clause, `except ValueError as e`
ExceptValueErrorOnly(f, e, at) ==
    IF e.cls = "ValueError"
    THEN [f EXCEPT !.pc = "returned", !.result = ErrorDict(e), !.raisedAt = at]
    ELSE [f EXCEPT !.pc = "raised", !.raisedAt = at]

\* the except clause of both tools: every Exception becomes the error
\* mapping the tool returns; anything else would leave the tool as a fault
Except(f, e, at) ==
    IF e.cls \in ExceptionClasses
    THEN [f EXCEPT !.pc = "returned", !.result = ErrorDict(e), !.raisedAt = at]
    ELSE [f EXCEPT !.pc = "raised", !.raisedAt = at]

\* LinkedIn(...) handing out one module-level scraper, made by the first call
SharedLinkedIn(h, proxy_list, ca_cert) ==
    IF h = <<>>
    THEN [heap |-> <<Obj("LinkedIn", [proxies |-> proxy_list, ca_cert |-> ca_cert,
                                      scraper_input |-> None])>>,
          ref |-> Ref(1)]
    ELSE [heap |-> h, ref |-> Ref(1)]

\* LinkedIn(proxies=proxy_list, ca_cert=ca_cert): a new scraper object
LinkedIn(h, proxy_list, ca_cert) ==
    [heap |-> Append(h, Obj("LinkedIn", [proxies |-> proxy_list, ca_cert |-> ca_cert,
                                         scraper_input |-> None])),
     ref |-> Ref(Len(h) + 1)]

\* obj.scraper_input = value, on the heap
SetScraperInput(h, ref, value) ==
    [h EXCEPT ![ref.id] = Obj(@.cls, [@.attrs EXCEPT !.scraper_input = value])]

\* the engine's _get_job_details: the page of job_id rendered in the
\* description format of the request attached to the scraper
EngineJobDetails(scraper, job_id, page) ==
    Bind(GetAttr(scraper.attrs.scraper_input, "description_format"), LAMBDA fmt :
        Ok(Dict([k \in {"description", "job_level"} |->
                    IF k = "job_level" THEN page.job_level
                    ELSE IF fmt = DescriptionFormat_MARKDOWN THEN page.md
                    ELSE page.html])))

\* a tool is called with arguments a
Call(c, op, A) ==
    /\ frames[c].pc = "idle"
    /\ \E a \in A : frames' = [frames EXCEPT ![c] = [@ EXCEPT !.pc = "start", !.op = op, !.args = a]]
    /\ UNCHANGED heap

\* the proxies are parsed and the scraper is constructed (the same code in
\* both tools); env is what the constructor does: Ok(None), or Raise(e)
Construct(c, op, Env) ==
    /\ frames[c].pc = "start"
    /\ frames[c].op = op
    /\ \E env \in Env :
        LET f == frames[c]
            proxy_list == ParseProxies(f.args.proxies)
            made == LinkedIn(heap, proxy_list, f.args.ca_cert)
            g == [f EXCEPT !.proxy_list = proxy_list, !.env_ctor = env]
        IN  IF env.ok
            THEN /\ frames' = [frames EXCEPT ![c] = [g EXCEPT !.pc = "built", !.linkedin = made.ref]]
                 /\ heap' = made.heap
            ELSE /\ frames' = [frames EXCEPT ![c] = Except(g, env.e, "construct")]
                 /\ UNCHANGED heap

search_jobs_call(c, A) == Call(c, "search_jobs", A)

search_jobs_construct(c, Env) == Construct(c, "search_jobs", Env)

\* job_type_enum = ...; scraper_input = ScraperInput(...)
search_jobs_request(c) ==
    /\ frames[c].pc = "built"
    /\ frames[c].op = "search_jobs"
    /\ LET f == frames[c]
           jt == ResolveJobType(f.args.job_type)
           si == IF jt.ok THEN SearchScraperInput(f.args, jt.v) ELSE jt
       IN  frames' = [frames EXCEPT ![c] =
               IF ~jt.ok THEN Except(f, jt.e, "job_type")
               ELSE IF ~si.ok THEN Except([f EXCEPT !.job_type_enum = jt.v], si.e, "request")
               ELSE [f EXCEPT !.pc = "ready", !.job_type_enum = jt.v, !.scraper_input = si.v]]
    /\ UNCHANGED heap

\* job_response = linkedin.scrape(scraper_input); env is what the engine
\* does: Ok(<the posts>), or Raise(e).  The engine keeps the request on the
\* scraper it was called on.
search_jobs_scrape(c, Env) ==
    /\ frames[c].pc = "ready"
    /\ frames[c].op = "search_jobs"
    /\ \E env \in Env :
        LET f == [frames[c] EXCEPT !.env_engine = env]
        IN  /\ heap' = SetScraperInput(heap, f.linkedin, f.scraper_input)
            /\ frames' = [frames EXCEPT ![c] =
                   IF env.ok
                   THEN [f EXCEPT !.pc = "scraped",
                                  !.job_response = Obj("JobResponse", [jobs |-> List(env.v)])]
                   ELSE Except(f, env.e, "scrape")]

\* job_list = [serialize_job(job) for job in job_response.jobs]; return job_list
search_jobs_flatten(c) ==
    /\ frames[c].pc = "scraped"
    /\ frames[c].op = "search_jobs"
    /\ LET f == frames[c]
           job_list == SerializeAll(f.job_response.attrs.jobs.l)
       IN  frames' = [frames EXCEPT ![c] =
               IF job_list.ok
               THEN [f EXCEPT !.pc = "returned", !.result = List(job_list.v)]
               ELSE Except(f, job_list.e, "flatten")]
    /\ UNCHANGED heap

\* get_job_details passing its result through serialize_job, as the list path does
ReturnDetailsFlattened(f, details) ==
    LET rec == Bind(GetAttr(details, "id"), LAMBDA id : serialize_job(details))
    IN  IF rec.ok
        THEN [f EXCEPT !.pc = "returned", !.result = rec.v]
        ELSE Except(f, rec.e, "flatten")

\* return details
ReturnDetails(f, details) == [f EXCEPT !.pc = "returned", !.result = details]

get_job_details_call(c, A) == Call(c, "get_job_details", A)

get_job_details_construct(c, Env) == Construct(c, "get_job_details", Env)

\* linkedin.scraper_input = ScraperInput(site_type=[Site.LINKEDIN], description_format=...)
get_job_details_attach(c) ==
    /\ frames[c].pc = "built"
    /\ frames[c].op = "get_job_details"
    /\ LET f == frames[c]
           si == DetailsScraperInput(f.args)
       IN  IF si.ok
           THEN /\ heap' = SetScraperInput(heap, f.linkedin, si.v)
                /\ frames' = [frames EXCEPT ![c] = [f EXCEPT !.pc = "ready", !.scraper_input = si.v]]
           ELSE /\ frames' = [frames EXCEPT ![c] = Except(f, si.e, "request")]
                /\ UNCHANGED heap

\* details = linkedin._get_job_details(job_id); return details.  env is the
\* page the engine fetches, Ok(page), or Raise(e)
get_job_details_fetch(c, Env) ==
    /\ frames[c].pc = "ready"
    /\ frames[c].op = "get_job_details"
    /\ \E env \in Env :
        LET f == [frames[c] EXCEPT !.env_engine = env]
            details == IF env.ok
                       THEN EngineJobDetails(heap[f.linkedin.id], f.args.job_id, env.v)
                       ELSE env
        IN  frames' = [frames EXCEPT ![c] =
                IF details.ok
                THEN ReturnDetails(f, details.v)
                ELSE Except(f, details.e, "details")]
    /\ UNCHANGED heap


(***************************************************************************)
(* Inputs: the arguments the tools are called with, the posts and the      *)
(* outcomes the engine produces.                                           *)
(***************************************************************************)
\* the defaults of search_jobs' parameters
DefaultSearchArgs ==
    [search_term |-> Str(<<"python developer">>), location |-> None,
     distance |-> Int(50), is_remote |-> Bool(FALSE), job_type |-> None,
     results_wanted |-> Int(15), fetch_description |-> Bool(FALSE),
     description_format |-> Str(markdown), proxies |-> None, ca_cert |-> None]

\* the defaults of get_job_details' parameters
DefaultDetailsArgs ==
    [job_id |-> Str(<<"4242">>), description_format |-> Str(markdown),
     proxies |-> None, ca_cert |-> None]

OptionalKeys ==
    {"location", "date_posted", "description", "company_url", "job_type",
     "compensation", "emails", "job_level", "company_industry", "company_logo",
     "job_function"}

AlwaysKeys == {"id", "title", "company_name", "job_url", "job_url_direct", "is_remote"}

\* a post with every optional field None
PlainPost(id) ==
    Obj("JobPost",
        [k \in AlwaysKeys \cup OptionalKeys |->
            CASE k = "id" -> Str(<<id>>)
              [] k = "title" -> Str(<<"Engineer">>)
              [] k = "company_name" -> Str(<<"Acme">>)
              [] k = "job_url" -> Str(<<"https://www.linkedin.com/jobs/view/", id>>)
              [] k = "is_remote" -> Bool(FALSE)
              [] OTHER -> None])

With(post, k, v) == Obj(post.cls, [post.attrs EXCEPT ![k] = v])

Compensation(lo, hi, cur) ==
    Obj("Compensation", [min_amount |-> lo, max_amount |-> hi, currency |-> cur])

\* a compensation value that lacks min_amount
BrokenCompensation ==
    Obj("Compensation", [max_amount |-> Int(2000), currency |-> Str(<<"USD">>)])

Location == Obj("Location", [display_location |-> Str(<<"Berlin, DE">>)])

\* a location without its formatter
BrokenLocation == Obj("Location", [city |-> Str(<<"Berlin">>)])

Date == Obj("date", [isoformat |-> Str(<<"2024-01-02">>)])

Page ==
    [md |-> Str(<<"**About the job**">>), html |-> Str(<<"<b>About the job</b>">>),
     job_level |-> Str(<<"senior">>)]

\* what the scraper's constructor can do
CtorEnv == {Ok(None), Raise(Exc("ValueError", <<"invalid ca_cert">>))}

(***************************************************************************)
(* Spec: calls of both tools, their steps interleaved.                     *)
(***************************************************************************)
\* (a description_format of None is what a caller that bypasses the typed
\* tool interface can pass: its lower() raises)
SearchArgs ==
    {[DefaultSearchArgs EXCEPT !.job_type = j] : j \in {None, Str(<<"bogus">>)}}
    \cup {[DefaultSearchArgs EXCEPT !.description_format = None]}

DetailsArgs ==
    {[DefaultDetailsArgs EXCEPT !.description_format = f] :
        f \in {Str(markdown), Str(<<"h", "t", "m", "l">>), None}}

ScrapeEnv ==
    {Raise(Exc("LinkedInException", <<"bad response status code: 429">>)),
     Ok(<<With(PlainPost("1"), "description", Str(<<"text">>))>>),
     Ok(<<PlainPost("1"), With(PlainPost("2"), "compensation", BrokenCompensation)>>)}

DetailsEnv == {Ok(Page), Raise(Exc("Exception", <<"connection timed out">>))}

\* the next step of call c, once it is in flight
Step(c) ==
    \/ search_jobs_construct(c, CtorEnv)
    \/ search_jobs_request(c)
    \/ search_jobs_scrape(c, ScrapeEnv)
    \/ search_jobs_flatten(c)
    \/ get_job_details_construct(c, CtorEnv)
    \/ get_job_details_attach(c)
    \/ get_job_details_fetch(c, DetailsEnv)

Next ==
    \E c \in Calls :
        \/ search_jobs_call(c, SearchArgs)
        \/ get_job_details_call(c, DetailsArgs)
        \/ Step(c)

Spec == Init /\ [][Next]_vars


(***************************************************************************)
(* Properties of Spec.                                                     *)
(***************************************************************************)
InFlight(f) == f.pc \in {"start", "built", "ready", "scraped"}

Failed(f) == f.raisedAt # "nowhere"

\* the exception behind a failed call: what the constructor or the engine
\* raised, or what the step of the code that failed raises on the call's data
FailureOf(f) ==
    CASE f.raisedAt = "construct" -> f.env_ctor.e
      [] f.raisedAt = "job_type" -> ResolveJobType(f.args.job_type).e
      [] f.raisedAt = "request" -> ResolveDescriptionFormat(f.args.description_format).e
      [] f.raisedAt = "scrape" -> f.env_engine.e
      [] f.raisedAt = "flatten" -> SerializeAll(f.env_engine.v).e
      [] f.raisedAt = "details" -> f.env_engine.e

\* a step of the call raised: the constructor, the job-type resolution, the
\* description-format resolution, the engine, or the flattening of a post
StepRaised(f) ==
    \/ f.env_ctor # Unbound /\ ~f.env_ctor.ok
    \/ f.op = "search_jobs" /\ f.pc \notin {"start", "built"} /\ f.env_ctor.ok
         /\ ~ResolveJobType(f.args.job_type).ok
    \/ f.op # "none" /\ f.pc \notin {"start", "built"} /\ f.env_ctor.ok
         /\ ~ResolveDescriptionFormat(f.args.description_format).ok
    \/ f.env_engine # Unbound /\ ~f.env_engine.ok
    \/ f.op = "search_jobs" /\ f.pc = "returned" /\ f.env_engine # Unbound
         /\ f.env_engine.ok /\ ~SerializeAll(f.env_engine.v).ok

\* C1: every failure at any step of a call of either tool ends the call with
\* the one-key mapping {"error": <the failure's message>}; no call ever
\* leaves its tool as a fault, a call in flight can always take its next
\* step, and a call that returned holds a normal result or an error mapping.
C1_FailuresBecomeErrorMappings ==
    \A c \in Calls :
        LET f == frames[c]
        IN  /\ f.pc # "raised"
            /\ InFlight(f) => (~Failed(f) /\ ENABLED Step(c))
            /\ StepRaised(f) => Failed(f)
            /\ Failed(f) =>
                /\ f.pc = "returned"
                /\ f.result.t = "dict"
                /\ Keys(f.result) = {"error"}
                /\ f.result.d["error"] = Str(FailureOf(f).msg)
            /\ (f.pc = "returned" /\ ~Failed(f)) =>
                IF f.op = "search_jobs" THEN f.result.t = "list" ELSE f.result.t = "dict"

\* a call failed while flattening a post, and another in the engine or in
\* the description-format resolution
C1_Witness ==
    \E c, d \in Calls :
        /\ frames[c].raisedAt = "flatten" /\ frames[c].pc = "returned"
        /\ frames[c].result = ErrorDict(Exc("AttributeError",
               <<"'", "Compensation", "' object has no attribute '", "min_amount", "'">>))
        /\ frames[d].raisedAt \in {"scrape", "details", "request"} /\ frames[d].pc = "returned"

\* a result with the free-form message text taken out
WithoutMessage(v) ==
    IF v.t = "dict" /\ Keys(v) = {"error"} THEN Dict([k \in {"error"} |-> Str(<<>>)]) ELSE v

\* C8: the result of a search_jobs call whose job-type resolution failed and
\* the result of one whose scrape failed differ in more than message text.
C8_ResolutionFailureDistinguishable ==
    \A c, d \in Calls :
        (frames[c].raisedAt = "job_type" /\ frames[d].raisedAt = "scrape")
            => WithoutMessage(frames[c].result) # WithoutMessage(frames[d].result)

\* what a call of search_jobs returns when it runs alone, given what the
\* constructor and the engine do
AloneSearch(a, ctor, engine) ==
    IF ~ctor.ok THEN ErrorDict(ctor.e)
    ELSE LET jt == ResolveJobType(a.job_type)
         IN  IF ~jt.ok THEN ErrorDict(jt.e)
             ELSE LET si == SearchScraperInput(a, jt.v)
                  IN  IF ~si.ok THEN ErrorDict(si.e)
                      ELSE IF ~engine.ok THEN ErrorDict(engine.e)
                      ELSE LET job_list == SerializeAll(engine.v)
                           IN  IF job_list.ok THEN List(job_list.v)
                               ELSE ErrorDict(job_list.e)

\* what a call of get_job_details returns when it runs alone
AloneDetails(a, ctor, engine) ==
    IF ~ctor.ok THEN ErrorDict(ctor.e)
    ELSE LET si == DetailsScraperInput(a)
         IN  IF ~si.ok THEN ErrorDict(si.e)
             ELSE IF ~engine.ok THEN ErrorDict(engine.e)
             ELSE LET own == Obj("LinkedIn", [proxies |-> ParseProxies(a.proxies),
                                              ca_cert |-> a.ca_cert,
                                              scraper_input |-> si.v])
                      details == EngineJobDetails(own, a.job_id, engine.v)
                  IN  IF details.ok THEN details.v ELSE ErrorDict(details.e)

\* C9: in every interleaving, the calls hold different scraper objects, the
\* scraper of a call carries the proxies and the request of that call and of
\* no other, and a call returns what it returns when it runs alone with the
\* same arguments, constructor outcome and engine outcome.
C9_CallsAreIndependent ==
    /\ \A c, d \in Calls :
        (c # d /\ frames[c].linkedin # Unbound /\ frames[d].linkedin # Unbound)
            => frames[c].linkedin # frames[d].linkedin
    /\ \A c \in Calls :
        LET f == frames[c]
        IN  /\ f.linkedin # Unbound =>
                /\ heap[f.linkedin.id].attrs.proxies = f.proxy_list
                /\ heap[f.linkedin.id].attrs.scraper_input \in {None, f.scraper_input}
            /\ f.pc = "returned" =>
                f.result = IF f.op = "search_jobs"
                           THEN AloneSearch(f.args, f.env_ctor, f.env_engine)
                           ELSE AloneDetails(f.args, f.env_ctor, f.env_engine)

\* a get_job_details call returned its details in its own format while
\* another one, with the other format, which constructed its scraper earlier,
\* is still in flight with its request attached
C9_Witness ==
    \E c, d \in Calls :
        /\ c # d
        /\ frames[c].op = "get_job_details" /\ frames[d].op = "get_job_details"
        /\ frames[c].args.description_format # frames[d].args.description_format
        /\ frames[c].pc = "returned" /\ ~Failed(frames[c])
        /\ frames[c].result.d["description"] = Page.md
        /\ frames[d].pc = "ready"
        /\ frames[d].linkedin.id < frames[c].linkedin.id

\* C10: a get_job_details call whose engine lookup succeeded has attached
\* to its scraper a request of exactly the site selector and the resolved
\* description format, and returns the engine's result for its job_id as the
\* engine gave it (a mapping that is no output of serialize_job); every
\* record a successful search_jobs call returns is serialize_job of the post
\* at its place.
C10_DetailsRawSearchFlattened ==
    \A c \in Calls :
        LET f == frames[c]
        IN  (f.pc = "returned" /\ f.env_engine # Unbound /\ f.env_engine.ok) =>
                IF f.op = "get_job_details"
                THEN LET si == heap[f.linkedin.id].attrs.scraper_input
                     IN  /\ DOMAIN si.attrs = {"site_type", "description_format"}
                         /\ si.attrs.site_type = List(<<Site_LINKEDIN>>)
                         /\ si.attrs.description_format
                                = ResolveDescriptionFormat(f.args.description_format).v
                         /\ f.result = EngineJobDetails(heap[f.linkedin.id], f.args.job_id,
                                                        f.env_engine.v).v
                         /\ ~(AlwaysKeys \subseteq Keys(f.result))
                ELSE ~Failed(f) =>
                        /\ Len(f.result.l) = Len(f.env_engine.v)
                        /\ \A i \in 1..Len(f.result.l) :
                               f.result.l[i] = serialize_job(f.env_engine.v[i]).v

\* a get_job_details call returned the engine's details, and a search_jobs
\* call returned a flattened record
C10_Witness ==
    /\ \E c \in Calls :
        /\ frames[c].op = "get_job_details" /\ frames[c].pc = "returned"
        /\ frames[c].result = Dict([k \in {"description", "job_level"} |->
                                       IF k = "description" THEN Page.html ELSE Page.job_level])
    /\ \E c \in Calls :
        /\ frames[c].op = "search_jobs" /\ frames[c].pc = "returned"
        /\ frames[c].result.t = "list" /\ Len(frames[c].result.l) = 1
        /\ "description" \in Keys(frames[c].result.l[1])


(***************************************************************************)
(* SpecRequest: one call of either tool, over the strings its request is   *)
(* built from.                                                             *)
(***************************************************************************)
ProxyAlphabet == {"a", "b", " ", ","}

\* proxies: None, or a string of up to n characters
ProxyInputs(n) ==
    {None} \cup {Str(s) : s \in UNION {[1..k -> ProxyAlphabet] : k \in 0..n}}

FormatInputs ==
    {Str(s) : s \in
        {markdown,
         <<"M", "a", "r", "k", "d", "o", "w", "n">>,
         <<"M", "A", "R", "K", "D", "O", "W", "N">>,
         <<"m", "a", "r", "k", "D", "o", "w", "n">>,
         <<"h", "t", "m", "l">>,
         <<"H", "T", "M", "L">>,
         <<>>,
         <<"x", "y", "z">>,
         <<"m", "a", "r", "k", "d", "o", "w">>,
         <<"m", "a", "r", "k", "d", "o", "w", "n", "s">>,
         <<" ", "m", "a", "r", "k", "d", "o", "w", "n">>,
         <<"m", "a", "r", "k", "_", "d", "o", "w", "n">>}}

JobTypeInputs ==
    {None, Str(<<>>), Str(<<"fulltime">>), Str(<<"teilzeit">>), Str(<<"contractor">>),
     Str(<<"internship">>), Str(<<"bogus">>), Str(<<"FULLTIME">>)}

RequestSearchArgs(n) ==
    {[DefaultSearchArgs EXCEPT !.proxies = p, !.job_type = j] :
        p \in ProxyInputs(n), j \in {None, Str(<<"fulltime">>), Str(<<"bogus">>)}}
    \cup {[DefaultSearchArgs EXCEPT !.description_format = f, !.job_type = j,
                                    !.proxies = Str(<<"a", ",", "b">>)] :
        f \in FormatInputs, j \in JobTypeInputs}

RequestDetailsArgs(n) ==
    {[DefaultDetailsArgs EXCEPT !.proxies = p, !.description_format = f] :
        p \in ProxyInputs(n), f \in FormatInputs}

NextRequest ==
    \/ search_jobs_call(1, RequestSearchArgs(MaxProxyLen))
    \/ search_jobs_construct(1, CtorEnv)
    \/ search_jobs_request(1)
    \/ search_jobs_scrape(1, {Ok(<<>>)})
    \/ search_jobs_flatten(1)
    \/ get_job_details_call(1, RequestDetailsArgs(MaxProxyLen))
    \/ get_job_details_construct(1, CtorEnv)
    \/ get_job_details_attach(1)
    \/ get_job_details_fetch(1, {Ok(Page)})

SpecRequest == Init /\ [][NextRequest]_vars

\* two characters are the same letter, whatever their case
SameLetter(x, y) ==
    \/ x = y
    \/ x \in DOMAIN UpperCase /\ UpperCase[x] = y
    \/ y \in DOMAIN UpperCase /\ UpperCase[y] = x

EqualsIgnoringCase(s, w) ==
    Len(s) = Len(w) /\ \A i \in 1..Len(s) : SameLetter(s[i], w[i])

\* the request a call has built: the one of search_jobs is passed to the
\* engine, the one of get_job_details is attached to the scraper
RequestBuilt(f) == f.scraper_input # Unbound

\* C5: in both tools the request's description format is MARKDOWN exactly
\* when the description_format string is "markdown" in some letter case, and
\* HTML for every other string; no string makes the resolution fail.
C5_DescriptionFormatTwoWay ==
    LET f == frames[1]
    IN  /\ f.raisedAt # "request"
        /\ (f.pc \in {"ready", "scraped", "returned"} /\ ~Failed(f)) => RequestBuilt(f)
        /\ RequestBuilt(f) =>
            /\ f.scraper_input.attrs.description_format =
                   IF EqualsIgnoringCase(f.args.description_format.s, markdown)
                   THEN DescriptionFormat_MARKDOWN
                   ELSE DescriptionFormat_HTML
            /\ f.op = "get_job_details" =>
                   heap[f.linkedin.id].attrs.scraper_input = f.scraper_input

\* a get_job_details call given "MarkDown"-like mixed case has attached a
\* MARKDOWN request to its scraper
C5_Witness ==
    /\ frames[1].op = "get_job_details"
    /\ frames[1].args.description_format = Str(<<"m", "a", "r", "k", "D", "o", "w", "n">>)
    /\ frames[1].pc = "returned" /\ ~Failed(frames[1])
    /\ heap[1].attrs.scraper_input.attrs.description_format = DescriptionFormat_MARKDOWN

\* the places of the commas of s, and the text between consecutive ones
Commas(s) == {i \in 1..Len(s) : s[i] = ","}

\* the i-th smallest element of a set of numbers
RECURSIVE Nth(_, _)
Nth(S, i) ==
    LET m == CHOOSE x \in S : \A y \in S : x <= y
    IN  IF i = 1 THEN m ELSE Nth(S \ {m}, i - 1)

Segment(s, i) ==
    SubSeq(s, Nth({0} \cup Commas(s), i) + 1, Nth(Commas(s) \cup {Len(s) + 1}, i) - 1)

\* seg without the whitespace around it
Trimmed(seg) ==
    LET ink == {i \in 1..Len(seg) : seg[i] \notin Whitespace}
    IN  IF ink = {} THEN <<>>
        ELSE SubSeq(seg, CHOOSE i \in ink : \A k \in ink : i <= k,
                         CHOOSE i \in ink : \A k \in ink : i >= k)

\* C6: in both tools a non-empty proxies string gives the scraper the list
\* of its comma-separated segments, one element per segment, in order, each
\* without its surrounding whitespace; absent or empty proxies give the
\* scraper None, not an empty list.
C6_ProxiesSplitAndStripped ==
    LET f == frames[1]
        p == f.args.proxies
    IN  (f.pc \notin {"idle", "start"}) =>
            /\ f.proxy_list # Unbound
            /\ f.raisedAt # "construct" =>
                   heap # <<>> /\ heap[f.linkedin.id].attrs.proxies = f.proxy_list
            /\ IF p = None \/ p = Str(<<>>)
               THEN f.proxy_list = None
               ELSE /\ f.proxy_list.t = "list"
                    /\ Len(f.proxy_list.l) = Cardinality(Commas(p.s)) + 1
                    /\ \A i \in 1..Len(f.proxy_list.l) :
                           f.proxy_list.l[i] = Str(Trimmed(Segment(p.s, i)))

\* search_jobs given "b, a" has constructed its scraper with ["b", "a"]
C6_Witness ==
    /\ frames[1].op = "search_jobs"
    /\ frames[1].args.proxies = Str(<<"b", ",", " ", "a">>)
    /\ frames[1].pc = "ready"
    /\ heap[1].attrs.proxies = List(<<Str(<<"b">>), Str(<<"a">>)>>)

\* the members of the job-type enumeration that a string matches
Matching(job_type) ==
    {JobType[i] : i \in {k \in 1..Len(JobType) : InTuple(job_type, JobType[k].attrs.value)}}

SamplePosts ==
    {PlainPost("1"),
     With(PlainPost("2"), "description", Str(<<"text">>)),
     With(With(PlainPost("3"), "compensation",
               Compensation(Int(1000), Int(2000), Str(<<"USD">>))),
          "job_type", List(<<JobType[1], JobType[2]>>)),
     With(PlainPost("4"), "compensation", BrokenCompensation),
     With(PlainPost("5"), "location", BrokenLocation)}

\* the lists of up to n sample posts
PostLists(n) == UNION {[1..k -> SamplePosts] : k \in 0..n}

SearchScrapeEnv(n) ==
    {Ok(l) : l \in PostLists(n)}
    \cup {Raise(Exc("LinkedInException", <<"bad response status code: 429">>))}

NextSearch ==
    \/ search_jobs_call(1, {DefaultSearchArgs})
    \/ search_jobs_construct(1, CtorEnv)
    \/ search_jobs_request(1)
    \/ search_jobs_scrape(1, SearchScrapeEnv(MaxPosts))
    \/ search_jobs_flatten(1)

SpecSearch == Init /\ [][NextSearch]_vars

\* a call of search_jobs that returned a list
ReturnedList(f) == f.op = "search_jobs" /\ f.pc = "returned" /\ ~Failed(f)

\* C3: when search_jobs succeeds on N posts it returns exactly N records,
\* the i-th being the flattening of the i-th post (and carrying its id).
C3_OneRecordPerPostInOrder ==
    LET f == frames[1]
    IN  ReturnedList(f) =>
            /\ f.result.t = "list"
            /\ Len(f.result.l) = Len(f.env_engine.v)
            /\ \A i \in 1..Len(f.result.l) :
                /\ f.result.l[i] = serialize_job(f.env_engine.v[i]).v
                /\ f.result.l[i].d["id"] = f.env_engine.v[i].attrs.id

\* search_jobs returned three records for the posts 2, 1, 2, in that order
C3_Witness ==
    /\ ReturnedList(frames[1])
    /\ Len(frames[1].result.l) = 3
    /\ [i \in 1..3 |-> frames[1].result.l[i].d["id"]] = <<Str(<<"2">>), Str(<<"1">>), Str(<<"2">>)>>
    /\ frames[1].result.l[1] = frames[1].result.l[3]

\* the optional fields of a post that are present with their expected
\* substructure missing
MalformedFields(post) ==
    {k \in {"compensation"} :
        /\ post.attrs[k] # None
        /\ ~({"min_amount", "max_amount", "currency"} \subseteq DOMAIN post.attrs[k].attrs)}
    \cup {k \in {"location"} :
        /\ post.attrs[k] # None
        /\ "display_location" \notin DOMAIN post.attrs[k].attrs}

\* C4: when the engine returns posts of which one has a malformed optional
\* field, search_jobs still returns the list of all the records, the
\* malformed field left out of that post's record.
C4_MalformedFieldOmitted ==
    LET f == frames[1]
    IN  (f.op = "search_jobs" /\ f.pc = "returned" /\ f.env_engine # Unbound /\ f.env_engine.ok) =>
            /\ f.result.t = "list"
            /\ Len(f.result.l) = Len(f.env_engine.v)
            /\ \A i \in 1..Len(f.result.l) :
                /\ AlwaysKeys \subseteq Keys(f.result.l[i])
                /\ MalformedFields(f.env_engine.v[i]) \cap Keys(f.result.l[i]) = {}

(***************************************************************************)
(* SpecSerialize: one call of search_jobs on one post, over the values of  *)
(* the post's fields.                                                      *)
(***************************************************************************)
\* the values an optional field takes when it is set
FieldValues(k) ==
    CASE k = "location" -> {Location, BrokenLocation}
      [] k = "date_posted" -> {Date, Str(<<"2024-01-02">>)}
      [] k = "job_type" ->
            {List(<<>>), List(<<JobType[1]>>), List(<<JobType[3], JobType[2]>>),
             List(<<Str(<<"fulltime">>)>>)}
      [] k = "compensation" ->
            {Compensation(Int(1000), Int(2000), Str(<<"USD">>)),
             Compensation(None, None, None), BrokenCompensation}
      [] k = "emails" -> {List(<<>>), List(<<Str(<<"jobs@acme.example">>)>>)}
      [] OTHER -> {Str(<<>>), Str(<<"x">>)}

\* the posts that set the optional fields S of post
RECURSIVE Setting(_, _)
Setting(post, S) ==
    IF S = {} THEN {post}
    ELSE LET k == CHOOSE x \in S : TRUE
         IN  {With(q, k, v) : q \in Setting(post, S \ {k}), v \in FieldValues(k)}

BasePosts ==
    {With(With(With(PlainPost("7"), "is_remote", r), "job_url_direct", u), "company_name", n) :
        r \in {None, Bool(FALSE), Bool(TRUE)},
        u \in {None, Str(<<"https://acme.example/apply">>)},
        n \in {None, Str(<<>>)}}

\* the sets of at most n optional fields
FieldSets(n) == {T \in SUBSET OptionalKeys : Cardinality(T) <= n}

\* the engine returns one post: a base post with some optional fields set
RichScrapeEnv(b, S) == {Ok(<<p>>) : p \in Setting(b, S)}

NextSerialize ==
    \/ search_jobs_call(1, {DefaultSearchArgs})
    \/ search_jobs_construct(1, {Ok(None)})
    \/ search_jobs_request(1)
    \/ \E b \in BasePosts, S \in FieldSets(MaxSet) : search_jobs_scrape(1, RichScrapeEnv(b, S))
    \/ search_jobs_flatten(1)

SpecSerialize == Init /\ [][NextSerialize]_vars

NonNullNonEmpty(v) == v # None /\ v # Str(<<>>) /\ v # List(<<>>)

\* C2: the record serialize_job produces for a post has the six keys id,
\* title, company_name, job_url, job_url_direct and is_remote whatever their
\* values, and each other key exactly when the post's field is neither None
\* nor empty; a post whose optional fields are all None gives exactly the six.
C2_SparseRecordKeys ==
    LET f == frames[1]
    IN  ReturnedList(f) =>
            \A i \in 1..Len(f.result.l) :
                LET post == f.env_engine.v[i]
                    rec == f.result.l[i]
                IN  /\ Keys(rec) = AlwaysKeys \cup
                           {k \in OptionalKeys : NonNullNonEmpty(post.attrs[k])}
                    /\ \A k \in AlwaysKeys : rec.d[k] = post.attrs[k]
                    /\ (\A k \in OptionalKeys : post.attrs[k] = None) => Keys(rec) = AlwaysKeys

\* a post with is_remote False, company_name None, an empty description and
\* one email gave a record of the six keys and emails
C2_Witness ==
    /\ ReturnedList(frames[1])
    /\ Len(frames[1].result.l) = 1
    /\ frames[1].env_engine.v[1].attrs.description = Str(<<>>)
    /\ frames[1].result.l[1].d["is_remote"] = Bool(FALSE)
    /\ frames[1].result.l[1].d["company_name"] = None
    /\ Keys(frames[1].result.l[1]) = AlwaysKeys \cup {"emails"}

=============================================================================
